---- MODULE Spec2Model ----
(***************************************************************************)
(* Model of main.py: the batch transcription tool.  One run of main() is   *)
(* setup_directories, the empty-input check, whisper.load_model, and       *)
(* process_files: load_history, the listing of the eligible files, and per *)
(* file get_file_hash, the history check, transcribe_file, the collision   *)
(* safe output name, the transcript write, the history put and             *)
(* save_history; then the summary.  format_timestamp is modelled as an     *)
(* operator on a number of milliseconds, with the double arithmetic of     *)
(* timedelta.total_seconds() computed exactly on integers.                 *)
(***************************************************************************)
EXTENDS Integers, Sequences, FiniteSets, TLC

VARIABLES
    inputDir,          \* Input/: the directory listing, a sequence of entries
    transcripts,       \* Output/transcripts/: file name -> document
    disk,              \* Output/transcription_history.json
    history,           \* process_files: the mapping load_history returned
    pc,                \* where main() / process_files() stands
    run,               \* number of runs started; also datetime.now()
    i,                 \* the loop index of process_files (1-based)
    transcript,        \* transcribe_file's document for files[i]
    result,            \* transcribe_file's engine result for files[i]
    output_file,       \* the output name chosen for files[i]
    processed_count,
    skipped_count,
    failed_count,      \* files that took the else branch of line 173
    modelLoads,        \* calls of whisper.load_model in this run
    lastEnd,           \* how the current / last run ended
    prevEnd,           \* how the run before it ended
    outcome,           \* per eligible file: what this run did with it
    prevOutcome,       \* the same for the run before
    prevFailed,        \* failed_count at the end of the run before
    startDisk,         \* disk when this run started
    startTranscripts,  \* transcripts when this run started
    startHistory,      \* history as load_history returned it in this run
    writes,            \* every output name a transcript was opened for writing at
    tsIn,              \* format_timestamp: the argument, in milliseconds
    tsOut,             \* format_timestamp: the returned string
    tsPc

vars == <<inputDir, transcripts, disk, history, pc, run, i, transcript, result,
          output_file, processed_count, skipped_count, failed_count, modelLoads,
          lastEnd, prevEnd, outcome, prevOutcome, prevFailed, startDisk,
          startTranscripts, startHistory, writes, tsIn, tsOut, tsPc>>

orchVars == <<inputDir, transcripts, disk, history, pc, run, i, transcript, result,
              output_file, processed_count, skipped_count, failed_count, modelLoads,
              lastEnd, prevEnd, outcome, prevOutcome, prevFailed, startDisk,
              startTranscripts, startHistory, writes>>

tsVars == <<tsIn, tsOut, tsPc>>

(***************************************************************************)
(* Bounds.                                                                 *)
(***************************************************************************)
MaxEntries == 2
MaxRuns == 2
MaxTsDelta == 12

(***************************************************************************)
(* Strings are sequences of one-character strings.                         *)
(***************************************************************************)
DigitChars == <<"0", "1", "2", "3", "4", "5", "6", "7", "8", "9">>

RECURSIVE DecDigits(_)
DecDigits(n) ==
    IF n < 10 THEN <<DigitChars[n + 1]>>
    ELSE DecDigits(n \div 10) \o <<DigitChars[(n % 10) + 1]>>

RECURSIVE Zeros(_)
Zeros(k) == IF k <= 0 THEN <<>> ELSE <<"0">> \o Zeros(k - 1)

\* f"{n:0wd}": at least w digits, zero-padded on the left
ZeroPad(n, w) == Zeros(w - Len(DecDigits(n))) \o DecDigits(n)

UpperChars == <<"A", "B", "C", "D", "E", "F", "G", "H", "I", "J", "K", "L", "M",
                "N", "O", "P", "Q", "R", "S", "T", "U", "V", "W", "X", "Y", "Z">>
LowerChars == <<"a", "b", "c", "d", "e", "f", "g", "h", "i", "j", "k", "l", "m",
                "n", "o", "p", "q", "r", "s", "t", "u", "v", "w", "x", "y", "z">>

Range(s) == {s[k] : k \in DOMAIN s}

UpperSet == Range(UpperChars)
LowerSet == Range(LowerChars)
DigitSet == Range(DigitChars)

ToLowerChar(c) ==
    IF c \in UpperSet
    THEN LowerChars[CHOOSE k \in DOMAIN UpperChars : UpperChars[k] = c]
    ELSE c

ToUpperChar(c) ==
    IF c \in LowerSet
    THEN UpperChars[CHOOSE k \in DOMAIN LowerChars : LowerChars[k] = c]
    ELSE c

\* str.lower() and str.upper()
Lower(s) == [k \in DOMAIN s |-> ToLowerChar(s[k])]
Upper(s) == [k \in DOMAIN s |-> ToUpperChar(s[k])]

\* str.isalnum() of one character
IsAlnum(c) == c \in UpperSet \/ c \in LowerSet \/ c \in DigitSet

\* str.rstrip(): trailing whitespace removed
RECURSIVE RStrip(_)
RStrip(s) ==
    IF s # <<>> /\ s[Len(s)] = " " THEN RStrip(SubSeq(s, 1, Len(s) - 1)) ELSE s

(***************************************************************************)
(* Configuration (lines 17-28).                                            *)
(***************************************************************************)
SUPPORTED_FORMATS ==
    { <<".", "m", "p", "3">>, <<".", "m", "p", "4">>, <<".", "w", "a", "v">>,
      <<".", "m", "4", "a">>, <<".", "o", "p", "u", "s">>, <<".", "o", "g", "g">>,
      <<".", "f", "l", "a", "c">>, <<".", "a", "v", "i">>, <<".", "m", "o", "v">>,
      <<".", "m", "k", "v">>, <<".", "w", "e", "b", "m">>, <<".", "a", "a", "c">>,
      <<".", "w", "m", "a">>, <<".", "m", "4", "b">>, <<".", "3", "g", "p">>,
      <<".", "m", "p", "e", "g">>, <<".", "m", "p", "g">>, <<".", "w", "m", "v">>,
      <<".", "f", "l", "v">> }

\* str(output_file.relative_to(OUTPUT_DIR)) of a file of TRANSCRIPTS_DIR
TranscriptsPrefix == <<"transcripts", "/">>

(***************************************************************************)
(* The inputs: entries of Input/ and what may already lie in               *)
(* Output/transcripts/.                                                    *)
(***************************************************************************)
Contents == {"x", "y"}

EntryNames ==
    { [stem |-> <<"a">>,           suffix |-> <<".", "m", "p", "3">>, isFile |-> TRUE],
      [stem |-> <<"a", " ", "!">>, suffix |-> <<".", "M", "P", "3">>, isFile |-> TRUE],
      [stem |-> <<"n">>,           suffix |-> <<".", "t", "x", "t">>, isFile |-> TRUE],
      [stem |-> <<"d">>,           suffix |-> <<".", "m", "p", "3">>, isFile |-> FALSE] }

\* Path.name
FileName(e) == e.stem \o e.suffix

IsMedia(e) == e.isFile /\ Lower(e.suffix) \in SUPPORTED_FORMATS

EntryPool ==
    { [stem |-> n.stem, suffix |-> n.suffix, isFile |-> n.isFile, content |-> c] :
        n \in {m \in EntryNames : IsMedia(m)}, c \in Contents }
    \cup
    { [stem |-> n.stem, suffix |-> n.suffix, isFile |-> n.isFile, content |-> "x"] :
        n \in {m \in EntryNames : ~IsMedia(m)} }

\* a directory holds no two entries of the same name
Listings ==
    UNION { { s \in [1..n -> EntryPool] :
                \A a, b \in 1..n : a # b => FileName(s[a]) # FileName(s[b]) } :
            n \in 0..MaxEntries }

\* a transcript somebody put into Output/transcripts/ before the first run
UserDoc ==
    [filename |-> <<"u">>, date |-> 0, language |-> <<>>, blocks |-> <<>>,
     full_text |-> <<>>, complete |-> TRUE]

\* what open(output_file, 'w') leaves when the write does not finish
PartialDoc ==
    [filename |-> <<>>, date |-> 0, language |-> <<>>, blocks |-> <<>>,
     full_text |-> <<>>, complete |-> FALSE]

NoDoc ==
    [filename |-> <<>>, date |-> -1, language |-> <<>>, blocks |-> <<>>,
     full_text |-> <<>>, complete |-> FALSE]

EmptyMap == [h \in {} |-> NoDoc]

NoResult == [k \in {} |-> <<>>]

(***************************************************************************)
(* model.transcribe (lines 76-81) on a file the engine can transcribe: a    *)
(* dict with or without the key 'language'; 'duration' is never among the  *)
(* keys of whisper's result.  The result is a function of the file's       *)
(* content; whether the engine raises instead is not.                      *)
(***************************************************************************)
HelloSegments == << [start |-> 0, end |-> 2320, text |-> <<" ", "h", "i">>] >>

EngineResult(e) ==
    IF e.content = "x"
    THEN [language |-> <<"e", "n">>, text |-> <<" ", "h", "i", " ">>,
          segments |-> HelloSegments]
    ELSE [text |-> <<" ", "h", "i", " ">>, segments |-> HelloSegments]

\* dict.get(key, default)
Get(d, key, default) == IF key \in DOMAIN d THEN d[key] ELSE default

\* str.strip()
RECURSIVE LStrip(_)
LStrip(s) == IF s # <<>> /\ s[1] = " " THEN LStrip(Tail(s)) ELSE s
Strip(s) == LStrip(RStrip(s))

(***************************************************************************)
(* format_timestamp (lines 57-68).  The argument is a float of seconds; the *)
(* model takes it as a whole number n of milliseconds.  timedelta keeps it *)
(* as 1000*n microseconds, and total_seconds() returns the double nearest  *)
(* to n/1000.  The operators below compute on integers what the double     *)
(* arithmetic of lines 60-63 returns.                                      *)
(***************************************************************************)
RECURSIVE Pow2(_)
Pow2(e) == IF e <= 0 THEN 1 ELSE 2 * Pow2(e - 1)

RECURSIVE Pow2Mod(_, _)
Pow2Mod(e, m) == IF e <= 0 THEN 1 % m ELSE (2 * Pow2Mod(e - 1, m)) % m

\* the binary exponent of n/1000: the E with 2^E <= n/1000 < 2^(E+1), n > 0
RECURSIVE ExpUp(_, _)
ExpUp(n, e) == IF 1000 * Pow2(e + 1) <= n THEN ExpUp(n, e + 1) ELSE e
RECURSIVE ExpDown(_, _)
ExpDown(n, e) == IF n * Pow2(-e) < 1000 THEN ExpDown(n, e - 1) ELSE e
BinExp(n) == IF n >= 1000 THEN ExpUp(n, 0) ELSE ExpDown(n, -1)

\* n * 2^(52-E) modulo 2000: the remainder of the 53-bit significand's division
SigRem(n) == ((n % 2000) * Pow2Mod(52 - BinExp(n), 2000)) % 2000

\* total_seconds() is below n/1000: the significand was rounded down
\* (round-half-even: a remainder of exactly a half goes to the even quotient)
RoundedDown(n) ==
    LET r == SigRem(n) % 1000
    IN  (0 < r /\ r < 500) \/ SigRem(n) = 500

\* the j with 2^j < k <= 2^(j+1), k >= 1
RECURSIVE CeilExp(_, _)
CeilExp(k, j) == IF Pow2(j + 1) < k THEN CeilExp(k, j + 1) ELSE j

\* int((td.total_seconds() % 1) * 1000), line 63: the product is the double
\* nearest to k - r * 2^(E-52); it is k again only when that is within half
\* a unit in the last place of k
Milliseconds(n) ==
    LET k == n % 1000
        r == SigRem(n) % 1000
        d == CeilExp(k, -1) - BinExp(n) - 1
    IN  IF k = 0 \/ ~RoundedDown(n) THEN k
        ELSE IF d >= 0 /\ r <= Pow2(d) THEN k
        ELSE k - 1

Hours(n) == n \div 3600000
Minutes(n) == (n % 3600000) \div 60000
Seconds(n) == (n \div 1000) % 60

format_timestamp(n) ==
    IF Hours(n) > 0
    THEN ZeroPad(Hours(n), 2) \o <<":">> \o ZeroPad(Minutes(n), 2) \o <<":">>
         \o ZeroPad(Seconds(n), 2) \o <<".">> \o ZeroPad(Milliseconds(n), 3)
    ELSE ZeroPad(Minutes(n), 2) \o <<":">> \o ZeroPad(Seconds(n), 2) \o <<".">>
         \o ZeroPad(Milliseconds(n), 3)

(***************************************************************************)
(* Helpers of process_files and transcribe_file.                           *)
(***************************************************************************)
\* line 121: the entries that are files with a supported suffix, in listing order
EligibleFiles(dir) == SelectSeq(dir, IsMedia)

files == EligibleFiles(inputDir)

\* a digest of the file's name instead of its bytes
HashOfName(e) == <<"md5", FileName(e)>>

\* get_file_hash (lines 49-55): the digest of the file's bytes; a function of
\* the content alone, different for different contents
get_file_hash(e) == <<"md5", e.content>>

\* the history check that never finds the hash
NeverInHistory(h, hist) == FALSE

\* line 139: file_hash in history
InHistory(h, hist) == h \in DOMAIN hist

\* line 149: the characters of the stem that are alphanumeric, ' ', '-' or '_',
\* then rstrip()
KeepChar(c) == IsAlnum(c) \/ c \in {" ", "-", "_"}
SafeFilename(stem) == RStrip(SelectSeq(stem, KeepChar))

\* lines 150 and 155: the output file's name in TRANSCRIPTS_DIR
BaseName(safe) == safe \o <<"_", "t", "r", "a", "n", "s", "c", "r", "i", "p", "t">>
                       \o <<".", "t", "x", "t">>
NumberedName(safe, counter) ==
    safe \o <<"_", "t", "r", "a", "n", "s", "c", "r", "i", "p", "t", "_">>
         \o DecDigits(counter) \o <<".", "t", "x", "t">>

\* lines 153-156: while output_file.exists(): take the next counter
RECURSIVE FreeName(_, _, _, _)
FreeName(safe, candidate, counter, dir) ==
    IF candidate \in DOMAIN dir
    THEN FreeName(safe, NumberedName(safe, counter), counter + 1, dir)
    ELSE candidate

\* the output name taken without looking whether it exists
OutputFileUnchecked(e, dir) == BaseName(SafeFilename(e.stem))

\* lines 149-156
OutputFile(e, dir) ==
    FreeName(SafeFilename(e.stem), BaseName(SafeFilename(e.stem)), 1, dir)

\* lines 95-102: one block per segment
SegmentBlock(seg) ==
    [start |-> format_timestamp(seg.start), end |-> format_timestamp(seg.end),
     text |-> Strip(seg.text)]

\* lines 84-110: the document transcribe_file returns
TranscriptDoc(e, now, res) ==
    [filename |-> FileName(e), date |-> now,
     language |-> Upper(Get(res, "language", <<"u", "n", "k", "n", "o", "w", "n">>)),
     blocks |-> [k \in DOMAIN res.segments |-> SegmentBlock(res.segments[k])],
     full_text |-> Strip(res.text), complete |-> TRUE]

\* a record that always names the unnumbered output file
RecordOfBaseName(e, now, out, res) ==
    [filename |-> FileName(e), date |-> now,
     output_file |-> TranscriptsPrefix \o BaseName(SafeFilename(e.stem)),
     language |-> Get(res, "language", <<"u", "n", "k", "n", "o", "w", "n">>),
     duration |-> Get(res, "duration", 0)]

\* lines 162-168
HistoryRecord(e, now, out, res) ==
    [filename |-> FileName(e), date |-> now,
     output_file |-> TranscriptsPrefix \o out,
     language |-> Get(res, "language", <<"u", "n", "k", "n", "o", "w", "n">>),
     duration |-> Get(res, "duration", 0)]

\* a put that starts a new mapping
PutAlone(hist, h, rec) == [k \in {h} |-> rec]

\* line 162: history[file_hash] = record
Put(hist, h, rec) == [k \in DOMAIN hist \cup {h} |-> IF k = h THEN rec ELSE hist[k]]

\* the file of TRANSCRIPTS_DIR a record's output_file names
RecordTarget(rec) == SubSeq(rec.output_file, Len(TranscriptsPrefix) + 1, Len(rec.output_file))

\* the file a directory holds after open(name, 'w') and write
WriteFile(dir, name, doc) == [k \in DOMAIN dir \cup {name} |-> IF k = name THEN doc ELSE dir[k]]

\* save_history (lines 44-47): the file holds the dumped mapping
SavedFile(hist) == [state |-> "valid", map |-> hist]

\* save_history interrupted after open(METADATA_FILE, 'w'): the file is cut
CutFile == [state |-> "corrupt", map |-> EmptyMap]

NoFile == [state |-> "absent", map |-> EmptyMap]

\* load_history (lines 37-42) of a file that exists and parses, or of none
LoadedHistory(d) == IF d.state = "valid" THEN d.map ELSE EmptyMap

NoOutcome == [k \in DOMAIN files |-> "none"]

(***************************************************************************)
(* The state before the first run.                                         *)
(***************************************************************************)
InitialTranscripts ==
    { EmptyMap, [k \in {BaseName(<<"a">>)} |-> UserDoc] }

InitRest ==
    /\ disk = NoFile
    /\ history = EmptyMap
    /\ pc = "idle"
    /\ run = 0
    /\ i = 0
    /\ transcript = NoDoc
    /\ result = NoResult
    /\ output_file = <<>>
    /\ processed_count = 0
    /\ skipped_count = 0
    /\ failed_count = 0
    /\ modelLoads = 0
    /\ lastEnd = "none"
    /\ prevEnd = "none"
    /\ outcome = NoOutcome
    /\ prevOutcome = NoOutcome
    /\ prevFailed = 0
    /\ startDisk = NoFile
    /\ startTranscripts = transcripts
    /\ startHistory = EmptyMap
    /\ writes = <<>>

Init ==
    /\ inputDir \in Listings
    /\ transcripts \in InitialTranscripts
    /\ InitRest
    /\ tsIn = 0
    /\ tsOut = <<>>
    /\ tsPc = "off"

(***************************************************************************)
(* main (lines 184-215).                                                   *)
(***************************************************************************)
\* the run is over: main returns, or an exception leaves it
EndRun(how) ==
    /\ pc' = "idle"
    /\ lastEnd' = how

\* the locals of one loop iteration
ClearLocals ==
    /\ transcript' = NoDoc
    /\ result' = NoResult
    /\ output_file' = <<>>

\* the empty check made on the supported media files instead of the entries
InputHasNoMedia(dir) == EligibleFiles(dir) = <<>>

\* line 193: not any(INPUT_DIR.iterdir())
InputIsEmpty(dir) == dir = <<>>

\* lines 190-197: setup_directories, then the empty check
StartRun ==
    /\ pc = "idle"
    /\ run < MaxRuns
    /\ run' = run + 1
    /\ prevEnd' = lastEnd
    /\ prevOutcome' = outcome
    /\ prevFailed' = failed_count
    /\ outcome' = NoOutcome
    /\ startDisk' = disk
    /\ startTranscripts' = transcripts
    /\ modelLoads' = 0
    /\ i' = 0
    /\ processed_count' = 0
    /\ skipped_count' = 0
    /\ failed_count' = 0
    /\ ClearLocals
    /\ IF InputIsEmpty(inputDir)
       THEN EndRun("empty")
       ELSE pc' = "load_model" /\ lastEnd' = "running"
    /\ UNCHANGED <<inputDir, transcripts, disk, history, startHistory, writes,
                   tsVars>>

\* lines 203-205: whisper.load_model returns the model
LoadModelOk ==
    /\ pc = "load_model"
    /\ modelLoads' = modelLoads + 1
    /\ pc' = "load_history"
    /\ UNCHANGED <<inputDir, transcripts, disk, history, run, i, transcript, result,
                   output_file, processed_count, skipped_count, failed_count, lastEnd,
                   prevEnd, outcome, prevOutcome, prevFailed, startDisk,
                   startTranscripts, startHistory, writes, tsVars>>

\* lines 206-210: whisper.load_model raises; main reports and returns
LoadModelFail ==
    /\ pc = "load_model"
    /\ modelLoads' = modelLoads + 1
    /\ EndRun("model_error")
    /\ UNCHANGED <<inputDir, transcripts, disk, history, run, i, transcript, result,
                   output_file, processed_count, skipped_count, failed_count,
                   prevEnd, outcome, prevOutcome, prevFailed, startDisk,
                   startTranscripts, startHistory, writes, tsVars>>

(***************************************************************************)
(* process_files (lines 116-182).                                          *)
(***************************************************************************)
\* lines 118-132: load_history, the listing, the early return, the counters
LoadHistory ==
    /\ pc = "load_history"
    /\ disk.state # "corrupt"
    /\ history' = LoadedHistory(disk)
    /\ startHistory' = LoadedHistory(disk)
    /\ IF files = <<>>
       THEN EndRun("no_files") /\ i' = i
       ELSE pc' = "hash" /\ i' = 1 /\ lastEnd' = lastEnd
    /\ UNCHANGED <<inputDir, transcripts, disk, run, transcript, result,
                   output_file, processed_count, skipped_count, failed_count,
                   modelLoads, prevEnd, outcome, prevOutcome, prevFailed, startDisk,
                   startTranscripts, writes, tsVars>>

\* lines 39-41: the file exists and json.load raises on it; nothing catches it
LoadHistoryError ==
    /\ pc = "load_history"
    /\ disk.state = "corrupt"
    /\ EndRun("history_error")
    /\ UNCHANGED <<inputDir, transcripts, disk, history, run, i, transcript, result,
                   output_file, processed_count, skipped_count, failed_count,
                   modelLoads, prevEnd, outcome, prevOutcome, prevFailed, startDisk,
                   startTranscripts, startHistory, writes, tsVars>>

\* line 134: the for loop takes the next file, or ends and the summary follows
Advance ==
    /\ i' = IF i < Len(files) THEN i + 1 ELSE i
    /\ pc' = IF i < Len(files) THEN "hash" ELSE "summary"
    /\ ClearLocals

\* lines 138-142: the hash of files[i]; a hash the history holds is skipped
HashFile ==
    /\ pc = "hash"
    /\ IF InHistory(get_file_hash(files[i]), history)
       THEN /\ skipped_count' = skipped_count + 1
            /\ outcome' = [outcome EXCEPT ![i] = "skipped"]
            /\ Advance
       ELSE /\ pc' = "transcribe"
            /\ UNCHANGED <<skipped_count, outcome, i, transcript, result, output_file>>
    /\ UNCHANGED <<inputDir, transcripts, disk, history, run, processed_count,
                   failed_count, modelLoads, lastEnd, prevEnd, prevOutcome, prevFailed,
                   startDisk, startTranscripts, startHistory, writes, tsVars>>

\* line 138: open or read raises in get_file_hash; nothing in process_files or
\* main catches it
HashError ==
    /\ pc = "hash"
    /\ outcome' = [outcome EXCEPT ![i] = "io_error"]
    /\ EndRun("hash_error")
    /\ UNCHANGED <<inputDir, transcripts, disk, history, run, i, transcript, result,
                   output_file, processed_count, skipped_count, failed_count,
                   modelLoads, prevEnd, prevOutcome, prevFailed, startDisk,
                   startTranscripts, startHistory, writes, tsVars>>

\* lines 145 and 74-110: the engine returns a result, transcribe_file the document
TranscribeOk ==
    /\ pc = "transcribe"
    /\ transcript' = TranscriptDoc(files[i], run, EngineResult(files[i]))
    /\ result' = EngineResult(files[i])
    /\ pc' = "write"
    /\ UNCHANGED <<inputDir, transcripts, disk, history, run, i, output_file,
                   processed_count, skipped_count, failed_count, modelLoads, lastEnd,
                   prevEnd, outcome, prevOutcome, prevFailed, startDisk,
                   startTranscripts, startHistory, writes, tsVars>>

\* a failure that is recorded and saved like a success
TranscribeFailRecorded ==
    /\ pc = "transcribe"
    /\ failed_count' = failed_count + 1
    /\ outcome' = [outcome EXCEPT ![i] = "failed"]
    /\ history' = Put(history, get_file_hash(files[i]),
                      HistoryRecord(files[i], run, <<>>, NoResult))
    /\ disk' = SavedFile(history')
    /\ Advance
    /\ UNCHANGED <<inputDir, transcripts, run, processed_count,
                   skipped_count, modelLoads, lastEnd, prevEnd, prevOutcome, prevFailed,
                   startDisk, startTranscripts, startHistory, writes, tsVars>>

\* lines 112-114 and 173-174: the engine raises, transcribe_file returns None
TranscribeFail ==
    /\ pc = "transcribe"
    /\ failed_count' = failed_count + 1
    /\ outcome' = [outcome EXCEPT ![i] = "failed"]
    /\ Advance
    /\ UNCHANGED <<inputDir, transcripts, disk, history, run, processed_count,
                   skipped_count, modelLoads, lastEnd, prevEnd, prevOutcome, prevFailed,
                   startDisk, startTranscripts, startHistory, writes, tsVars>>

\* lines 149-159: the free output name, and the document written to it
WriteTranscript ==
    /\ pc = "write"
    /\ output_file' = OutputFile(files[i], transcripts)
    /\ transcripts' = WriteFile(transcripts, OutputFile(files[i], transcripts), transcript)
    /\ writes' = Append(writes, OutputFile(files[i], transcripts))
    /\ pc' = "save"
    /\ UNCHANGED <<inputDir, disk, history, run, i, transcript, result,
                   processed_count, skipped_count, failed_count, modelLoads, lastEnd,
                   prevEnd, outcome, prevOutcome, prevFailed, startDisk,
                   startTranscripts, startHistory, tsVars>>

\* lines 158-159: open or write raises; nothing catches it.  The file is not
\* there (open failed) or is there with a part of the document
WriteError ==
    /\ pc = "write"
    /\ \E created \in BOOLEAN :
          /\ transcripts' =
                IF created
                THEN WriteFile(transcripts, OutputFile(files[i], transcripts), PartialDoc)
                ELSE transcripts
          /\ writes' =
                IF created
                THEN Append(writes, OutputFile(files[i], transcripts))
                ELSE writes
    /\ outcome' = [outcome EXCEPT ![i] = "io_error"]
    /\ EndRun("write_error")
    /\ UNCHANGED <<inputDir, disk, history, run, i, transcript, result, output_file,
                   processed_count, skipped_count, failed_count, modelLoads,
                   prevEnd, prevOutcome, prevFailed, startDisk,
                   startTranscripts, startHistory, tsVars>>

\* lines 162-172: the record is put, the whole mapping saved, the file counted
SaveHistory ==
    /\ pc = "save"
    /\ history' = Put(history, get_file_hash(files[i]),
                      HistoryRecord(files[i], run, output_file, result))
    /\ disk' = SavedFile(history')
    /\ processed_count' = processed_count + 1
    /\ outcome' = [outcome EXCEPT ![i] = "processed"]
    /\ Advance
    /\ UNCHANGED <<inputDir, transcripts, run, skipped_count, failed_count, modelLoads,
                   lastEnd, prevEnd, prevOutcome, prevFailed, startDisk,
                   startTranscripts, startHistory, writes, tsVars>>

\* lines 46-47: open or json.dump raises after the put; nothing catches it.
\* The history file is as it was (open failed) or cut
SaveError ==
    /\ pc = "save"
    /\ history' = Put(history, get_file_hash(files[i]),
                      HistoryRecord(files[i], run, output_file, result))
    /\ \E cut \in BOOLEAN : disk' = IF cut THEN CutFile ELSE disk
    /\ EndRun("save_error")
    /\ UNCHANGED <<inputDir, transcripts, run, i, transcript, result, output_file,
                   processed_count, skipped_count, failed_count, modelLoads,
                   prevEnd, outcome, prevOutcome, prevFailed, startDisk,
                   startTranscripts, startHistory, writes, tsVars>>

\* lines 176-182 and 215: the summary is printed, process_files and main return
Summary ==
    /\ pc = "summary"
    /\ EndRun("summary")
    /\ UNCHANGED <<inputDir, transcripts, disk, history, run, i, transcript, result,
                   output_file, processed_count, skipped_count, failed_count,
                   modelLoads, prevEnd, outcome, prevOutcome, prevFailed, startDisk,
                   startTranscripts, startHistory, writes, tsVars>>

Next ==
    \/ StartRun
    \/ LoadModelOk
    \/ LoadModelFail
    \/ LoadHistory
    \/ LoadHistoryError
    \/ HashFile
    \/ HashError
    \/ TranscribeOk
    \/ TranscribeFail
    \/ WriteTranscript
    \/ WriteError
    \/ SaveHistory
    \/ SaveError
    \/ Summary

Spec == Init /\ [][Next]_vars

(***************************************************************************)
(* The process is killed (or the machine stops) in the middle of a run.    *)
(* Killed inside the transcript write (lines 158-159) it may leave a part  *)
(* of the document; killed inside save_history after open(.., 'w')         *)
(* (lines 46-47) it leaves the history file cut.                           *)
(***************************************************************************)
Crash ==
    /\ pc # "idle"
    /\ \E cut \in BOOLEAN :
          /\ transcripts' =
                IF pc = "write" /\ cut
                THEN WriteFile(transcripts, OutputFile(files[i], transcripts), PartialDoc)
                ELSE transcripts
          /\ writes' =
                IF pc = "write" /\ cut
                THEN Append(writes, OutputFile(files[i], transcripts))
                ELSE writes
          /\ disk' = IF pc = "save" /\ cut THEN CutFile ELSE disk
    /\ EndRun("crashed")
    /\ UNCHANGED <<inputDir, history, run, i, transcript, result, output_file,
                   processed_count, skipped_count, failed_count, modelLoads,
                   prevEnd, outcome, prevOutcome, prevFailed, startDisk,
                   startTranscripts, startHistory, tsVars>>

NextCrash == Next \/ Crash

SpecCrash == Init /\ [][NextCrash]_vars

(***************************************************************************)
(* format_timestamp applied to one argument.                               *)
(***************************************************************************)
TsBases == {0, 990, 2310, 59990, 65250, 3599990, 3661500, 359999990}

TsInputs == {b + d : b \in TsBases, d \in 0..MaxTsDelta}

InitTs ==
    /\ inputDir = <<>>
    /\ transcripts = EmptyMap
    /\ InitRest
    /\ tsIn \in TsInputs
    /\ tsOut = <<>>
    /\ tsPc = "ready"

FormatTs ==
    /\ tsPc = "ready"
    /\ tsOut' = format_timestamp(tsIn)
    /\ tsPc' = "done"
    /\ UNCHANGED <<tsIn, orchVars>>

SpecTs == InitTs /\ [][FormatTs]_vars

(***************************************************************************)
(* Properties.                                                             *)
(***************************************************************************)
InLoop == pc \in {"hash", "transcribe", "write", "save", "summary"}

SameContent(j, k) == files[j].content = files[k].content

\* the run before this one went through all files and none of them failed
CleanPrev == run >= 2 /\ prevEnd = "summary" /\ prevFailed = 0

C4_PerFileIOErrorContinues ==
    \A k \in DOMAIN files :
        outcome[k] = "io_error" => lastEnd \in {"running", "summary"}

\* a record and the transcript file it names
PointsAtTranscript(rec) ==
    /\ RecordTarget(rec) \in DOMAIN transcripts
    /\ transcripts[RecordTarget(rec)].complete
    /\ transcripts[RecordTarget(rec)].filename = rec.filename
    /\ transcripts[RecordTarget(rec)].date = rec.date
    /\ rec.output_file = TranscriptsPrefix \o RecordTarget(rec)

\* C5: every record of the mapping in memory and of the persisted history file
\* names, relative to Output/, a file of Output/transcripts/ that exists and
\* holds the complete document written for that record's file.
C5_RecordsPointAtTranscripts ==
    /\ \A h \in DOMAIN history : PointsAtTranscript(history[h])
    /\ \A h \in DOMAIN disk.map : PointsAtTranscript(disk.map[h])

C5_Witness ==
    \E h \in DOMAIN disk.map :
        /\ RecordTarget(disk.map[h]) = NumberedName(<<"a">>, 1)
        /\ disk.map[h].filename = <<"a", " ", "!", ".", "M", "P", "3">>

\* C9: with an empty Input/ the engine is never loaded and history and
\* transcripts stay untouched; in any other run the engine load is attempted
\* exactly once, before the history is loaded and before any file is hashed or
\* transcribed; after a failed load no file was hashed or transcribed and the
\* history file and the transcripts are as they were when the run started.
C9_EngineLoadOrder ==
    /\ modelLoads <= 1
    /\ inputDir = <<>>
          => /\ modelLoads = 0
             /\ pc = "idle"
             /\ disk = NoFile
             /\ history = EmptyMap
             /\ transcripts \in InitialTranscripts
    /\ (inputDir # <<>> /\ run >= 1 /\ pc # "load_model") => modelLoads = 1
    /\ pc = "load_model" => (modelLoads = 0 /\ outcome = NoOutcome)
    /\ (pc = "load_history" \/ InLoop) => (modelLoads = 1 /\ lastEnd = "running")
    /\ lastEnd = "model_error"
          => /\ pc = "idle"
             /\ outcome = NoOutcome
             /\ processed_count + skipped_count + failed_count = 0
             /\ disk = startDisk
             /\ transcripts = startTranscripts

C9_Witness ==
    /\ inputDir # <<>>
    /\ files = <<>>
    /\ lastEnd = "no_files"
    /\ modelLoads = 1

C2_FailedIsRetried ==
    \A k \in DOMAIN files :
        (run >= 2 /\ prevOutcome[k] = "failed") => outcome[k] # "skipped"

\* the step in which transcribe_file returns None for files[i]
C2_FailureStep ==
    (pc = "transcribe" /\ outcome'[i] = "failed")
        => /\ history' = history
           /\ disk' = disk
           /\ transcripts' = transcripts
           /\ ~InHistory(get_file_hash(files[i]), history')
           /\ lastEnd' = "running"
           /\ i' = (IF i < Len(files) THEN i + 1 ELSE i)
           /\ pc' = (IF i < Len(files) THEN "hash" ELSE "summary")

\* a file that failed in the run before is skipped in this one only when
\* another file of equal content was processed meanwhile: a later one in the
\* run before, or an earlier one in this run
C2_RetryRule ==
    \A k \in DOMAIN files :
        (run >= 2 /\ prevOutcome[k] = "failed" /\ outcome[k] = "skipped")
            => \E j \in DOMAIN files :
                  /\ SameContent(j, k)
                  /\ \/ j > k /\ prevOutcome[j] = "processed"
                     \/ j < k /\ outcome[j] = "processed"

C3_WriteStep ==
    (pc = "write" /\ pc' = "save")
        => LET safe == SafeFilename(files[i].stem)
               used == DOMAIN transcripts
           IN  /\ output_file' \notin used
               /\ DOMAIN transcripts' = used \cup {output_file'}
               /\ transcripts'[output_file'] = transcript
               /\ \/ output_file' = BaseName(safe)
                  \/ \E n \in 1..(Cardinality(used) + 1) :
                        /\ output_file' = NumberedName(safe, n)
                        /\ BaseName(safe) \in used
                        /\ \A m \in 1..(n - 1) : NumberedName(safe, m) \in used

\* no step changes or removes a file of Output/transcripts/
C3_NoOverwrite ==
    \A name \in DOMAIN transcripts :
        name \in DOMAIN transcripts' /\ transcripts'[name] = transcripts[name]

\* no two writes went to the same name
C3_DistinctWrites ==
    \A a, b \in DOMAIN writes : a # b => writes[a] # writes[b]

\* C3: a transcript goes to S_transcript.txt when that is free, else to
\* S_transcript_n.txt for the least n >= 1 that is free; no existing file of the
\* transcripts directory is overwritten or cut; any two transcripts written
\* have distinct names.
C3_CollisionSafeNaming ==
    [][C3_WriteStep /\ C3_NoOverwrite]_vars /\ []C3_DistinctWrites

C3_Witness ==
    /\ pc = "save"
    /\ output_file = NumberedName(<<"a">>, 2)
    /\ transcripts[BaseName(<<"a">>)] = UserDoc
    /\ files[i].stem = <<"a", " ", "!">>

\* within a run every key of the mapping keeps its record, and a step that
\* adds a key adds the hash of files[i], which was absent
C6_MemoryStep ==
    pc # "load_history"
        => /\ \A h \in DOMAIN history :
                 h \in DOMAIN history' /\ history'[h] = history[h]
           /\ history' # history
                 => /\ DOMAIN history' = DOMAIN history \cup {get_file_hash(files[i])}
                    /\ get_file_hash(files[i]) \notin DOMAIN history

\* every save keeps the records the history file held
C6_FileStep ==
    (disk.state = "valid" /\ disk'.state = "valid")
        => \A h \in DOMAIN disk.map :
              h \in DOMAIN disk'.map /\ disk'.map[h] = disk.map[h]

\* load_history returns the mapping the file holds
C6_LoadStep ==
    (pc = "load_history" /\ pc' # "idle") => history' = disk.map

\* C6: a record is stored only for a hash that is absent from the mapping; a
\* hash that is a key keeps its record, in the mapping in memory during a run
\* and in the history file from save to save and run to run, also when a file
\* of equal content comes under another name.
C6_RecordsWriteOnce == [][C6_MemoryStep /\ C6_FileStep /\ C6_LoadStep]_vars

C6_Witness ==
    /\ run = 2
    /\ Len(files) = 2
    /\ SameContent(1, 2)
    /\ prevOutcome = <<"failed", "processed">>
    /\ outcome = <<"skipped", "skipped">>
    /\ disk.map[get_file_hash(files[1])].filename = FileName(files[2])
    /\ disk.map[get_file_hash(files[1])].date = 1

\* C7 as stated: when a run is interrupted, the history file still holds every
\* record it held when the run started and the record of every file the run
\* had processed before.
C7_CrashKeepsHistory ==
    lastEnd = "crashed"
        => /\ \A h \in DOMAIN startDisk.map :
                 h \in DOMAIN disk.map /\ disk.map[h] = startDisk.map[h]
           /\ \A k \in DOMAIN files :
                 outcome[k] = "processed"
                     => /\ get_file_hash(files[k]) \in DOMAIN disk.map
                        /\ disk.map[get_file_hash(files[k])] =
                              history[get_file_hash(files[k])]

IsDigit(c) == c \in DigitSet

DigitValue(c) == CHOOSE d \in 0..9 : DigitChars[d + 1] = c

\* the number a string of digits writes
RECURSIVE NumberOf(_)
NumberOf(s) ==
    IF s = <<>> THEN 0
    ELSE 10 * NumberOf(SubSeq(s, 1, Len(s) - 1)) + DigitValue(s[Len(s)])

AllDigits(s, positions) == \A k \in positions : IsDigit(s[k])

\* C8 as stated: for an argument of n milliseconds below one hour the string is
\* MM:SS.mmm, from one hour on HH:MM:SS.mmm, with two digits each for hours,
\* minutes and seconds and three for the milliseconds, and the fields are
\* floor(s/3600), floor((s mod 3600)/60), floor(s mod 60) and
\* floor((s mod 1)*1000).
C8_TimestampShape ==
    tsPc = "done"
        => IF tsIn < 3600000
           THEN /\ Len(tsOut) = 9
                /\ tsOut[3] = ":" /\ tsOut[6] = "."
                /\ AllDigits(tsOut, {1, 2, 4, 5, 7, 8, 9})
                /\ NumberOf(SubSeq(tsOut, 1, 2)) = (tsIn % 3600000) \div 60000
                /\ NumberOf(SubSeq(tsOut, 4, 5)) = (tsIn \div 1000) % 60
                /\ NumberOf(SubSeq(tsOut, 7, 9)) = tsIn % 1000
           ELSE /\ Len(tsOut) = 12
                /\ tsOut[3] = ":" /\ tsOut[6] = ":" /\ tsOut[9] = "."
                /\ AllDigits(tsOut, {1, 2, 4, 5, 7, 8, 10, 11, 12})
                /\ NumberOf(SubSeq(tsOut, 1, 2)) = tsIn \div 3600000
                /\ NumberOf(SubSeq(tsOut, 4, 5)) = (tsIn % 3600000) \div 60000
                /\ NumberOf(SubSeq(tsOut, 7, 8)) = (tsIn \div 1000) % 60
                /\ NumberOf(SubSeq(tsOut, 10, 12)) = tsIn % 1000

====
